---- MODULE Spec2Model ----
(***************************************************************************)
(* Model of src/src/components/PageReader.tsx: the PageReader component,   *)
(* its URL validator (isValidUrl) and its proxy fallback fetch              *)
(* (fetchPageContent).                                                     *)
(*                                                                         *)
(* Strings the code inspects character by character (the url field) are    *)
(* sequences of one-character strings.  Messages (Error.message, the error *)
(* banner text) are sequences of text fragments, so that "the banner       *)
(* contains X" is a contiguous-subsequence test.  Response bodies are      *)
(* opaque strings: the code only tests them for emptiness.                 *)
(*                                                                         *)
(* An action is one run of the component's code between two awaits: the    *)
(* event loop runs a handler or a continuation to its next await before    *)
(* anything else, and the state updates it makes are rendered together.    *)
(* `calls` holds the local state of the fetchPageContent invocations that  *)
(* are suspended at an await, with the log of the requests each has made;  *)
(* `settled` keeps the last invocation that returned.                      *)
(***************************************************************************)
EXTENDS Integers, Sequences, FiniteSets, TLC

VARIABLES url, htmlContent, loading, error, lastFetchedUrl,
          calls, settled, input, valid

vars == <<url, htmlContent, loading, error, lastFetchedUrl,
          calls, settled, input, valid>>

uiVars == <<url, htmlContent, loading, error, lastFetchedUrl>>

-----------------------------------------------------------------------------
(* Bounds *)

\* Largest number of fetchPageContent invocations the model lets be
\* suspended at an await at the same time.
MaxInFlight == 2

-----------------------------------------------------------------------------
(* Character classes *)

AsciiDigit == {"1", "8"}

AsciiUpper == {"H", "T", "P"}

AsciiLower == {"h", "t", "p", "s", "f", "i", "l", "e", "x", "a", "b", "q"}

AsciiAlpha == AsciiUpper \cup AsciiLower

\* U+00A0 NO-BREAK SPACE, written as one character of the model's alphabet.
Nbsp == "NBSP"

\* Characters String.prototype.trim removes (white space and line terminators).
WhiteSpace == {" ", "\t", "\n", Nbsp}

\* Leading and trailing "C0 control or space" removed by the URL parser.
C0ControlOrSpace == {" ", "\t", "\n"}

\* "ASCII tab or newline", removed by the URL parser wherever it occurs.
AsciiTabOrNewline == {"\t", "\n"}

ForbiddenHostCodePoint == {" ", "\t", "\n", "#", "/", ":", "<", ">", "?",
                           "@", "[", "\\", "]", "^", "|"}

ToLowerChar(c) ==
    CASE c = "H" -> "h"
      [] c = "T" -> "t"
      [] c = "P" -> "p"
      [] OTHER   -> c

-----------------------------------------------------------------------------
(* Sequence helpers *)

\* Index of the first element of s that is in S, Len(s)+1 when there is none.
FirstIdx(s, S) ==
    IF \E i \in 1..Len(s) : s[i] \in S
    THEN CHOOSE i \in 1..Len(s) :
            s[i] \in S /\ \A j \in 1..(i-1) : s[j] \notin S
    ELSE Len(s) + 1

\* s without its leading elements in S.
DropLeading(s, S) ==
    LET k == IF \E i \in 1..Len(s) : s[i] \notin S
             THEN CHOOSE i \in 1..Len(s) :
                     s[i] \notin S /\ \A j \in 1..(i-1) : s[j] \in S
             ELSE Len(s) + 1
    IN SubSeq(s, k, Len(s))

\* s without its trailing elements in S.
DropTrailing(s, S) ==
    LET k == IF \E i \in 1..Len(s) : s[i] \notin S
             THEN CHOOSE i \in 1..Len(s) :
                     s[i] \notin S /\ \A j \in (i+1)..Len(s) : s[j] \in S
             ELSE 0
    IN SubSeq(s, 1, k)

RECURSIVE Flatten(_)
Flatten(ss) == IF ss = <<>> THEN <<>> ELSE Head(ss) \o Flatten(Tail(ss))

\* t occurs in s as a contiguous subsequence (String.prototype.includes).
Contains(s, t) ==
    \E i \in 0..(Len(s) - Len(t)) : SubSeq(s, i + 1, i + Len(t)) = t

StartsWith(s, t) == Len(t) <= Len(s) /\ SubSeq(s, 1, Len(t)) = t

\* String.prototype.trim
trim(s) == DropTrailing(DropLeading(s, WhiteSpace), WhiteSpace)

-----------------------------------------------------------------------------
(* new URL(string): the part of the URL parser that decides between        *)
(* throwing and returning, and the protocol of the URL it returns.         *)

SpecialSchemes == { <<"h","t","t","p">>, <<"h","t","t","p","s">>,
                    <<"f","t","p">>, <<"f","i","l","e">> }

FileScheme == <<"f","i","l","e">>

ParseFailure == [failure |-> TRUE, protocol |-> <<>>]

\* Host and port of an authority (no credentials, no IPv6 literal).
\* needHost: the scheme is special and not file, so an empty host fails.
HostPortOk(auth, needHost) ==
    LET c    == FirstIdx(auth, {":"})
        host == SubSeq(auth, 1, c - 1)
        port == SubSeq(auth, c + 1, Len(auth))
    IN /\ (c <= Len(auth) => host # <<>>)
       /\ (needHost => host # <<>>)
       /\ \A i \in 1..Len(host) : host[i] \notin ForbiddenHostCodePoint
       /\ \A i \in 1..Len(port) : port[i] \in AsciiDigit

URLParse(string) ==
    LET s      == SelectSeq(DropTrailing(DropLeading(string, C0ControlOrSpace),
                                         C0ControlOrSpace),
                            LAMBDA ch : ch \notin AsciiTabOrNewline)
        colon  == FirstIdx(s, {":"})
        raw    == SubSeq(s, 1, colon - 1)
        hasScheme ==
            /\ colon <= Len(s)
            /\ raw # <<>>
            /\ raw[1] \in AsciiAlpha
            /\ \A i \in 1..Len(raw) :
                  raw[i] \in AsciiAlpha \cup AsciiDigit \cup {"+", "-", "."}
        scheme == [i \in 1..Len(raw) |-> ToLowerChar(raw[i])]
        rest   == SubSeq(s, colon + 1, Len(s))
        ok     == [failure |-> FALSE, protocol |-> scheme \o <<":">>]
    IN IF ~hasScheme THEN ParseFailure      \* no scheme and no base URL
       ELSE IF scheme \in SpecialSchemes /\ scheme # FileScheme
       THEN \* special authority (ignore) slashes state, then host state
            LET a    == DropLeading(rest, {"/", "\\"})
                auth == SubSeq(a, 1, FirstIdx(a, {"/", "\\", "?", "#"}) - 1)
            IN IF HostPortOk(auth, TRUE) THEN ok ELSE ParseFailure
       ELSE IF scheme = FileScheme
       THEN \* file state, file slash state, file host state
            IF Len(rest) >= 2 /\ rest[1] \in {"/", "\\"} /\ rest[2] \in {"/", "\\"}
            THEN LET a == SubSeq(rest, 3, Len(rest))
                     h == SubSeq(a, 1, FirstIdx(a, {"/", "\\", "?", "#"}) - 1)
                 IN IF \A i \in 1..Len(h) : h[i] \notin ForbiddenHostCodePoint
                    THEN ok ELSE ParseFailure
            ELSE ok
       ELSE \* not special: authority after "//", opaque path otherwise
            IF StartsWith(rest, <<"/", "/">>)
            THEN LET a    == SubSeq(rest, 3, Len(rest))
                     auth == SubSeq(a, 1, FirstIdx(a, {"/", "?", "#"}) - 1)
                 IN IF HostPortOk(auth, FALSE) THEN ok ELSE ParseFailure
            ELSE ok

\* A validator that forgets the protocol test.
isValidUrlAnyScheme(string) ==
    LET newUrl == URLParse(string)
    IN IF newUrl.failure THEN FALSE ELSE TRUE

\* isValidUrl: try { new URL; protocol test } catch { false }
isValidUrl(string) ==
    LET newUrl == URLParse(string)
    IN IF newUrl.failure
       THEN FALSE
       ELSE \/ newUrl.protocol = <<"h","t","t","p",":">>
            \/ newUrl.protocol = <<"h","t","t","p","s",":">>

-----------------------------------------------------------------------------
(* encodeURIComponent *)

UriUnreserved == AsciiAlpha \cup AsciiDigit \cup
                 {"-", "_", ".", "!", "~", "*", "'", "(", ")"}

PercentEncode(c) ==
    CASE c = ":"  -> <<"%", "3", "A">>
      [] c = "/"  -> <<"%", "2", "F">>
      [] c = "?"  -> <<"%", "3", "F">>
      [] c = "="  -> <<"%", "3", "D">>
      [] c = " "  -> <<"%", "2", "0">>
      [] c = "\\" -> <<"%", "5", "C">>
      [] c = "\t" -> <<"%", "0", "9">>
      [] c = "\n" -> <<"%", "0", "A">>
      [] c = Nbsp -> <<"%", "C", "2", "%", "A", "0">>

encodeURIComponent(s) ==
    Flatten([i \in 1..Len(s) |->
                IF s[i] \in UriUnreserved THEN <<s[i]>> ELSE PercentEncode(s[i])])

-----------------------------------------------------------------------------
(* The network, as fetchPageContent sees it *)

corsProxies == << "https://api.allorigins.win/raw?url=",
                  "https://cors-anywhere.herokuapp.com/",
                  "https://corsproxy.io/?" >>

Bodies == {"", "<html>A</html>", "<html>B</html>"}

\* Responses fetch() can resolve with.  The body of a non-success response
\* is never read by the code and is left empty.
Responses == {[status |-> 200, body |-> b] : b \in Bodies}
                \cup {[status |-> s, body |-> ""] : s \in {404, 503}}

\* Response.ok
ok(r) == r.status \in 200..299

\* Values fetch() can reject with (TypeError, with the browser's message).
FetchFaults == {[isError |-> TRUE, message |-> <<"Failed to fetch">>],
                [isError |-> TRUE,
                 message |-> <<"NetworkError when attempting to fetch resource.">>]}

\* Values response.text() can reject with.
TextFaults == {[isError |-> TRUE, message |-> <<"network error">>]}

-----------------------------------------------------------------------------
(* Messages *)

BlankUrlMessage == <<"Please enter a valid URL">>

InvalidUrlMessage == <<"Please enter a valid HTTP/HTTPS URL">>

\* A message that never names the status.
FailedToFetchMessageNoStatus(response) ==
    <<"Failed to fetch", ": ", "Network error">>

\* `Failed to fetch: ${response?.status || 'Network error'}`
\* response is <<>> (undefined) or <<r>>.
FailedToFetchMessage(response) ==
    <<"Failed to fetch", ": ">> \o
        (IF response # <<>> /\ response[1].status # 0
         THEN <<ToString(response[1].status)>>
         ELSE <<"Network error">>)

\* The text setError receives in the outer catch block.
ErrorBanner(err) ==
    <<"Failed to fetch",
      " page content. This might be due to CORS restrictions or the page being unavailable. Error: ">>
        \o (IF err.isError THEN err.message ELSE <<"Unknown error">>)

\* new Error(message)
NewError(message) == [isError |-> TRUE, message |-> message]

-----------------------------------------------------------------------------
(* State *)

\* Values the url field takes in the component.
UrlInputs == { <<>>,
               <<Nbsp>>,
               <<"a">>,
               <<"f","t","p",":","/","/","a">>,
               <<"h","t","t","p",":","/","/","a">>,
               <<"h","t","t","p","s",":","/","/","a">> }

\* No fetchPageContent invocation has settled yet.
NoneSettled == [kind |-> "none", url |-> <<>>, log |-> <<>>,
                response |-> <<>>, lastError |-> <<>>]

UIInit ==
    /\ url = <<>>
    /\ htmlContent = ""
    /\ loading = FALSE
    /\ error = <<>>
    /\ lastFetchedUrl = <<>>
    /\ calls = <<>>
    /\ settled = NoneSettled

Init ==
    /\ UIInit
    /\ input = <<>>
    /\ valid = <<>>

-----------------------------------------------------------------------------
(* fetchPageContent *)

\* A loop that asks the first proxy again on every iteration.
RequestFirstProxy(call, i) ==
    [call EXCEPT !.i = i,
                 !.log = Append(@, [proxyUrl |-> <<corsProxies[1]>> \o
                                                    encodeURIComponent(call.url),
                                    kind |-> "pending",
                                    status |-> 0,
                                    message |-> <<>>,
                                    body |-> "",
                                    bodyRead |-> "no"])]

\* A request leaves for proxy number i: proxy + encodeURIComponent(url).
Request(call, i) ==
    [call EXCEPT !.i = i,
                 !.log = Append(@, [proxyUrl |-> <<corsProxies[i]>> \o
                                                    encodeURIComponent(call.url),
                                    kind |-> "pending",
                                    status |-> 0,
                                    message |-> <<>>,
                                    body |-> "",
                                    bodyRead |-> "no"])]

\* The local state of an invocation suspended at its first await.
StartCall(u) ==
    Request([url |-> u, i |-> 0, pc |-> "fetch",
             response |-> <<>>, lastError |-> <<>>, log |-> <<>>], 1)

RemoveAt(s, c) == SubSeq(s, 1, c - 1) \o SubSeq(s, c + 1, Len(s))

Settled(call, kind) ==
    [kind |-> kind, url |-> call.url, log |-> call.log,
     response |-> call.response, lastError |-> call.lastError]

\* A catch block with no finally: the loading flag is never lowered.
CatchNoFinally(c, call, err) ==
    /\ error' = ErrorBanner(err)
    /\ calls' = RemoveAt(calls, c)
    /\ settled' = Settled(call, "Failure")
    /\ UNCHANGED <<url, htmlContent, loading, lastFetchedUrl, input, valid>>

\* catch (err) { setError(...) } finally { setLoading(false) }
CatchFinally(c, call, err) ==
    /\ error' = ErrorBanner(err)
    /\ loading' = FALSE
    /\ calls' = RemoveAt(calls, c)
    /\ settled' = Settled(call, "Failure")
    /\ UNCHANGED <<url, htmlContent, lastFetchedUrl, input, valid>>

\* The rest of the for loop after attempt number call.i did not break out:
\* the next proxy is requested, or the loop ends and
\* `if (!response || !response.ok) throw` runs.
ContinueLoop(c, call) ==
    IF call.i < Len(corsProxies)
    THEN /\ calls' = [calls EXCEPT ![c] = Request(call, call.i + 1)]
         /\ UNCHANGED <<url, htmlContent, loading, error, lastFetchedUrl,
                        settled, input, valid>>
    ELSE CatchFinally(c, call, NewError(FailedToFetchMessage(call.response)))

\* A rejection that also drops the content on screen.
RejectSubmitClearing(message) ==
    /\ error' = message
    /\ htmlContent' = ""
    /\ lastFetchedUrl' = <<>>
    /\ UNCHANGED <<url, loading, calls, settled, input, valid>>

\* setError(message); return;
RejectSubmit(message) ==
    /\ error' = message
    /\ UNCHANGED <<url, htmlContent, loading, lastFetchedUrl,
                   calls, settled, input, valid>>

\* A start of the fetch that leaves the previous content on screen.
BeginFetchKeepContent ==
    /\ loading' = TRUE
    /\ error' = <<>>
    /\ calls' = Append(calls, StartCall(url))
    /\ UNCHANGED <<url, htmlContent, lastFetchedUrl, settled, input, valid>>

\* setLoading(true); setError(''); setHtmlContent(''); the loop's first
\* request leaves.
BeginFetch ==
    /\ loading' = TRUE
    /\ error' = <<>>
    /\ htmlContent' = ""
    /\ calls' = Append(calls, StartCall(url))
    /\ UNCHANGED <<url, lastFetchedUrl, settled, input, valid>>

\* A form whose controls stay enabled while loading.
SubmitEnabledAlways == TRUE

\* The form's controls are disabled while loading: the url input by
\* disabled={loading}, the submit button by disabled={loading || !url.trim()}.
\* The blank test of the button repeats the first test of fetchPageContent;
\* the model lets a submit event arrive with a blank url so that this test
\* of fetchPageContent is exercised.

SubmitEnabled == ~loading

\* onSubmit={handleSubmit}: fetchPageContent up to its first await.
HandleSubmit ==
    /\ SubmitEnabled
    /\ Len(calls) < MaxInFlight
    /\ IF trim(url) = <<>>
       THEN RejectSubmit(BlankUrlMessage)
       ELSE IF ~isValidUrl(url)
       THEN RejectSubmit(InvalidUrlMessage)
       ELSE BeginFetch

\* onChange={(e) => setUrl(e.target.value)}, input disabled={loading}
ChangeUrl(v) ==
    /\ ~loading
    /\ v # url
    /\ url' = v
    /\ UNCHANGED <<htmlContent, loading, error, lastFetchedUrl,
                   calls, settled, input, valid>>

\* The record of what the network did with the last request of a log.
SetLast(log, kind, status, message, body) ==
    [log EXCEPT ![Len(log)] = [@ EXCEPT !.kind = kind, !.status = status,
                                        !.message = message, !.body = body]]

MarkRead(log, how) == [log EXCEPT ![Len(log)] = [@ EXCEPT !.bodyRead = how]]

\* `response = await fetch(...)` resumes with a response.
FetchResolves(c, r) ==
    /\ c \in DOMAIN calls
    /\ calls[c].pc = "fetch"
    /\ LET call == [calls[c] EXCEPT
                       !.response = <<r>>,
                       !.log = SetLast(@, "response", r.status, <<>>, r.body)]
       IN IF ok(r)
          THEN \* break; the test after the loop passes; await response.text()
               /\ calls' = [calls EXCEPT ![c] = [call EXCEPT !.pc = "text"]]
               /\ UNCHANGED <<url, htmlContent, loading, error, lastFetchedUrl,
                              settled, input, valid>>
          ELSE ContinueLoop(c, call)

\* `await fetch(...)` throws: catch (err) { lastError = err; continue; }
FetchRejects(c, e) ==
    /\ c \in DOMAIN calls
    /\ calls[c].pc = "fetch"
    /\ LET call == [calls[c] EXCEPT
                       !.lastError = <<e>>,
                       !.log = SetLast(@, "fault", 0, e.message, "")]
       IN ContinueLoop(c, call)

\* A success path that forgets setLastFetchedUrl(url).
TextResolvesNoSource(c) ==
    /\ c \in DOMAIN calls
    /\ calls[c].pc = "text"
    /\ htmlContent' = calls[c].response[1].body
    /\ loading' = FALSE
    /\ calls' = RemoveAt(calls, c)
    /\ settled' = Settled([calls[c] EXCEPT !.log = MarkRead(@, "yes")], "Success")
    /\ UNCHANGED <<url, error, lastFetchedUrl, input, valid>>

\* `const html = await response.text()` resumes with the body.
TextResolves(c) ==
    /\ c \in DOMAIN calls
    /\ calls[c].pc = "text"
    /\ LET html == calls[c].response[1].body
       IN /\ htmlContent' = html
          /\ lastFetchedUrl' = calls[c].url
    /\ loading' = FALSE
    /\ calls' = RemoveAt(calls, c)
    /\ settled' = Settled([calls[c] EXCEPT !.log = MarkRead(@, "yes")], "Success")
    /\ UNCHANGED <<url, error, input, valid>>

\* `await response.text()` throws.
TextRejects(c, e) ==
    /\ c \in DOMAIN calls
    /\ calls[c].pc = "text"
    /\ CatchFinally(c, [calls[c] EXCEPT !.log = MarkRead(@, "threw")], e)

\* A pending network call or body read comes back.
NetworkCompletes ==
    \E c \in 1..MaxInFlight :
        \/ \E r \in Responses : FetchResolves(c, r)
        \/ \E e \in FetchFaults : FetchRejects(c, e)
        \/ TextResolves(c)
        \/ \E e \in TextFaults : TextRejects(c, e)

Next ==
    \/ HandleSubmit
    \/ \E v \in UrlInputs : ChangeUrl(v)
    \/ \E c \in 1..MaxInFlight, r \in Responses : FetchResolves(c, r)
    \/ \E c \in 1..MaxInFlight, e \in FetchFaults : FetchRejects(c, e)
    \/ \E c \in 1..MaxInFlight : TextResolves(c)
    \/ \E c \in 1..MaxInFlight, e \in TextFaults : TextRejects(c, e)

Spec == Init /\ [][Next]_vars

\* Every network call and body read eventually returns or throws.
LiveSpec == Spec /\ WF_vars(NetworkCompletes)

-----------------------------------------------------------------------------
(* isValidUrl applied to bounded inputs *)

Leads == { <<>>, <<" ">>, <<Nbsp>> }

Schemes == { <<>>, <<"h","t","t","p">>, <<"h","t","t","p","s">>,
             <<"H","T","T","P">>, <<"f","t","p">>, <<"f","i","l","e">>,
             <<"x">>, <<"1","h">> }

Separators == { <<>>, <<":">>, <<":","/">>, <<":","/","/">>, <<":","\\","\\">> }

Remainders == { <<>>, <<"a">>, <<"a"," ","b">>, <<"a",":","8">>,
                <<"a",":","x">>, <<"a","/","p","?","q","=","1">> }

ValidatorInputs ==
    { l \o s \o p \o r : l \in Leads, s \in Schemes,
                         p \in Separators, r \in Remainders }

ValidatorInit ==
    /\ UIInit
    /\ input \in ValidatorInputs
    /\ valid = <<>>

CallIsValidUrl ==
    /\ valid = <<>>
    /\ valid' = <<isValidUrl(input)>>
    /\ UNCHANGED <<url, htmlContent, loading, error, lastFetchedUrl,
                   calls, settled, input>>

ValidatorNext == CallIsValidUrl

ValidatorSpec == ValidatorInit /\ [][ValidatorNext]_vars

-----------------------------------------------------------------------------
(* Properties *)

HttpA == <<"h","t","t","p",":","/","/","a">>

FtpA == <<"f","t","p",":","/","/","a">>

\* The logs of the invocations in flight and of the last settled one.
Logs == {calls[c].log : c \in DOMAIN calls} \cup {settled.log}

IsSuccessEntry(en) == en.kind = "response" /\ en.status \in 200..299

\* A fetchPageContent invocation settles in this step.
SettleStep == Len(calls') < Len(calls)

\* C1: within one invocation the proxies are requested in list order, each
\* at most once and one request at a time (only the newest request can be
\* pending), and no request follows an attempt that returned a success
\* response.
C1_ProxiesInOrder ==
    \A c \in DOMAIN calls \cup {0} :
        LET call == IF c = 0 THEN settled ELSE calls[c]
            log  == call.log
        IN /\ Len(log) <= Len(corsProxies)
           /\ \A k \in DOMAIN log :
                /\ log[k].proxyUrl = <<corsProxies[k]>> \o encodeURIComponent(call.url)
                /\ (log[k].kind = "pending" => k = Len(log))
                /\ (IsSuccessEntry(log[k]) => k = Len(log))

\* The second proxy answered with success after the first failed; the third
\* was never requested.
C1_Witness ==
    /\ settled.kind = "Success"
    /\ Len(settled.log) = 2
    /\ ~IsSuccessEntry(settled.log[1])
    /\ IsSuccessEntry(settled.log[2])

\* C2: whatever faults and non-success statuses came before, when an attempt
\* returned a success response and its body was read, the invocation settles
\* as Success with htmlContent the body of that response, lastFetchedUrl the
\* submitted url, and error empty.
C2_SuccessAfterFailures ==
    [][ \A k \in 1..Len(corsProxies) :
          ( /\ SettleStep
            /\ k \in DOMAIN settled'.log
            /\ IsSuccessEntry(settled'.log[k])
            /\ \A j \in 1..(k-1) : ~IsSuccessEntry(settled'.log[j])
            /\ settled'.log[k].bodyRead = "yes" )
          => /\ settled'.kind = "Success"
             /\ htmlContent' = settled'.log[k].body
             /\ lastFetchedUrl' = settled'.url
             /\ lastFetchedUrl' = url
             /\ error' = <<>> ]_vars

\* First proxy faulted, second returned 200 with body B.
C2_Witness ==
    /\ settled.kind = "Success"
    /\ Len(settled.log) = 2
    /\ settled.log[1].kind = "fault"
    /\ settled.log[2].status = 200
    /\ settled.log[2].bodyRead = "yes"
    /\ htmlContent = "<html>B</html>"
    /\ lastFetchedUrl = HttpA
    /\ error = <<>>
    /\ ~loading

\* The list was exhausted: every proxy was attempted, none with success.
Exhausted(log) ==
    /\ Len(log) = Len(corsProxies)
    /\ \A k \in DOMAIN log : log[k].kind \in {"response", "fault"}
    /\ \A k \in DOMAIN log : ~IsSuccessEntry(log[k])

\* C3: when every proxy was attempted without a success, the failure reason
\* contains the detail of the chronologically last attempt: its status code
\* if it completed with a non-success status, its transport error string if
\* it raised a fault.
C3_LastFailureDetail ==
    [][ (SettleStep /\ Exhausted(settled'.log))
        => LET last == settled'.log[Len(settled'.log)]
           IN IF last.kind = "response"
              THEN Contains(error', <<ToString(last.status)>>)
              ELSE Contains(error', last.message) ]_vars

\* C4: when every attempt completes with a non-success status, all proxies
\* of the list are attempted and the invocation settles as Failure with a
\* reason that contains the status code of the last proxy's response.
C4_AllNonSuccess ==
    [][ ( /\ SettleStep
          /\ \A k \in DOMAIN settled'.log :
                settled'.log[k].kind = "response" /\ ~IsSuccessEntry(settled'.log[k]) )
        => /\ Len(settled'.log) = Len(corsProxies)
           /\ settled'.kind = "Failure"
           /\ Contains(error',
                       <<ToString(settled'.log[Len(corsProxies)].status)>>)
           /\ ~loading' ]_vars

\* 404, 404, 503: the reason names 503 and not 404.
C4_Witness ==
    /\ settled.kind = "Failure"
    /\ Len(settled.log) = 3
    /\ settled.log[1].status = 404
    /\ settled.log[2].status = 404
    /\ settled.log[3].status = 503
    /\ Contains(error, <<"503">>)
    /\ ~Contains(error, <<"404">>)

\* C5: a submit of a url that is blank after trimming or that fails
\* isValidUrl starts no invocation (no request leaves), leaves loading false,
\* sets a non-empty error and keeps htmlContent and lastFetchedUrl.
C5_InvalidSubmit ==
    [][ ( /\ ~loading
          /\ url' = url
          /\ (trim(url) = <<>> \/ ~isValidUrl(url)) )
        => /\ calls' = calls
           /\ loading' = FALSE
           /\ error' # <<>>
           /\ htmlContent' = htmlContent
           /\ lastFetchedUrl' = lastFetchedUrl ]_vars

\* An ftp url was submitted after a successful fetch: the error is set, the
\* content of the earlier fetch is still there, nothing is in flight.
C5_Witness ==
    /\ url = FtpA
    /\ error = InvalidUrlMessage
    /\ htmlContent = "<html>A</html>"
    /\ lastFetchedUrl = HttpA
    /\ ~loading
    /\ calls = <<>>

\* C6: isValidUrl returns true exactly when the input parses and the parsed
\* protocol is http: or https:; it returns false (a value, not an exception)
\* when parsing fails or the scheme is another one such as ftp or file; the
\* component's state is untouched.
C6_IsValidUrl ==
    valid # <<>> =>
        /\ valid[1] \in BOOLEAN
        /\ valid[1] = ( /\ ~URLParse(input).failure
                        /\ URLParse(input).protocol \in
                              { <<"h","t","t","p",":">>,
                                <<"h","t","t","p","s",":">> } )
        /\ (StartsWith(input, <<"f","t","p",":">>) => valid[1] = FALSE)
        /\ (StartsWith(input, <<"f","i","l","e",":">>) => valid[1] = FALSE)
        /\ (input \in {HttpA, <<"h","t","t","p","s",":","/","/","a">>}
                => valid[1] = TRUE)
        /\ UIInit

\* An ftp url parses, and is rejected for its scheme.
C6_Witness ==
    /\ input = FtpA
    /\ ~URLParse(input).failure
    /\ valid = <<FALSE>>

\* C7: at most one invocation is in flight, exactly when loading is true;
\* while loading is true no step starts another invocation or edits url.
C7_SingleInFlight ==
    /\ [](Len(calls) <= 1 /\ (loading <=> Len(calls) = 1))
    /\ [][loading => (url' = url /\ Len(calls') <= Len(calls))]_vars

\* An invocation is suspended on its request to the second proxy.
C7_Witness ==
    /\ loading
    /\ Len(calls) = 1
    /\ calls[1].i = 2
    /\ calls[1].pc = "fetch"

\* C8: when network calls and body reads always come back, a fetch that set
\* loading to true settles with loading false again, as Success or Failure;
\* no path leaves loading raised with nothing in flight.
C8_AlwaysSettles ==
    /\ [](loading => Len(calls) > 0)
    /\ (loading ~> (~loading /\ settled.kind \in {"Success", "Failure"}))

\* The body read of a success response threw, and the invocation settled as
\* a Failure with the read's message.
C8_Witness ==
    /\ ~loading
    /\ settled.kind = "Failure"
    /\ Len(settled.log) = 3
    /\ settled.log[1].kind = "fault"
    /\ settled.log[2].kind = "response"
    /\ IsSuccessEntry(settled.log[3])
    /\ settled.log[3].bodyRead = "threw"
    /\ Contains(error, <<"network error">>)

\* C9: when a fetch settles, the preview is rendered (htmlContent non-empty)
\* exactly when the outcome is Success, and the error banner (error
\* non-empty) exactly when it is Failure, whatever body the proxy returned.
C9_RenderMatchesOutcome ==
    [][ SettleStep
        => /\ (htmlContent' # "") <=> (settled'.kind = "Success")
           /\ (error' # <<>>) <=> (settled'.kind = "Failure") ]_vars

\* C10 as stated: loading implies error and htmlContent empty, and error and
\* htmlContent are never both non-empty.
C10_Original ==
    /\ (loading => (error = <<>> /\ htmlContent = ""))
    /\ ~(error # <<>> /\ htmlContent # "")

\* C10 amended: loading implies error and htmlContent empty; error and
\* htmlContent are both non-empty only with one of the two messages of a
\* rejected submit (the content of the earlier successful fetch stays).
C10_Amended ==
    /\ (loading => (error = <<>> /\ htmlContent = ""))
    /\ ((error # <<>> /\ htmlContent # "")
            => (~loading /\ error \in {BlankUrlMessage, InvalidUrlMessage}))

\* A rejected submit with the content of an earlier fetch on screen.
C10_Witness ==
    /\ error = InvalidUrlMessage
    /\ htmlContent = "<html>B</html>"
    /\ ~loading

====
